---- MODULE Spec2Model ----
(***************************************************************************)
(* Model of SATDescargaDemo (src/sat_descarga_demo.py): the period         *)
(* splitter dividir_periodos, the submission loop and the polling loop of  *)
(* ejecutar_descarga, the package loop of descargar_paquetes, and the      *)
(* tail of ejecutar / __main__.                                            *)
(*                                                                         *)
(* Dates are day ordinals (all datetimes of the program are midnights:     *)
(* input_date parses "%Y-%m-%d"), timedelta(days=n) is + n.  The window of *)
(* days is far from datetime.max, so date arithmetic does not overflow.    *)
(* The remote services (cfdiclient) are the environment: each call         *)
(* returns one of the responses enumerated below or raises.                *)
(***************************************************************************)
EXTENDS Integers, Sequences, FiniteSets

\* ---------------------------------------------------------------- bounds
\* Last day ordinal of the periods explored by the download run.
MaxDia == 7
\* Last day ordinal and largest chunk length explored for dividir_periodos alone.
MaxDiaDividir == 20
MaxDias == 8
\* Longest package list of a verify response.
MaxPaquetes == 2

\* ------------------------------------------------------ program constants
\* dividir_periodos(..., dias: int = 7)
DIAS_DEFAULT == 7
\* max_intentos = 30
max_intentos == 30

\* ------------------------------------------------------------ environment
\* Package identifiers the server may name.
PkgIds == {"A", "B"}

\* Contents of a decoded package: a sequence of blocks, each an archive
\* member name, or the block "basura" for bytes that are no zip archive.
\* A block is <<stem, extension>>.
Datos == {<< <<"a", "xml">>, <<"b", "txt">> >>, << <<"", "basura">> >>}
\* A file left in the output directory by an earlier run.
DatoViejo == << <<"v", "xml">> >>

\* estado_solicitud values: 1..5 are the documented ones, -1 is the default
\* of response.get('estado_solicitud', -1), 6 any other code.
Estados == {-1, 1, 2, 3, 4, 5, 6}

RECURSIVE SeqsUpTo(_, _)
SeqsUpTo(S, n) ==
    IF n = 0 THEN {<<>>}
    ELSE LET prev == SeqsUpTo(S, n - 1)
         IN  prev \cup {Append(s, x) : s \in {t \in prev : Len(t) = n - 1}, x \in S}

\* The package lists of a verify response (absent, None or [] all give []).
ListasPaquetes == SeqsUpTo(PkgIds, MaxPaquetes)

Min(a, b) == IF a <= b THEN a ELSE b

VARIABLES
    pc,                 \* control point of the run
    fecha_inicio,       \* config['fecha_inicio']
    fecha_fin,          \* config['fecha_fin']
    dias,               \* the dias argument of dividir_periodos
    rangos,             \* rangos
    i,                  \* index of the submission loop (enumerate(rangos, 1))
    solicitudes,        \* solicitudes
    pendientes,         \* pendientes
    nuevos_pendientes,  \* nuevos_pendientes
    intentos,           \* intentos
    k,                  \* position of sol in "for sol in pendientes"
    paquetes,           \* paquetes of the sol being handled (<<>> when it has none)
    j,                  \* index of the package loop (enumerate(paquetes, 1))
    data,               \* data = base64.b64decode(...)
    carga,              \* what the fetch call of this iteration brought
    stats,              \* self.stats
    output_dir,         \* the files <output_dir>/<pkg_id>.zip: name -> content
    ronda,              \* what the current round printed per verified request
    procesados,         \* what descargar_paquetes printed per package of that sol
    resultado,          \* terminal outcome printed per request id
    cancelado,          \* "Cancelado por usuario" was printed
    retorno,            \* return value of ejecutar_descarga
    enviados,           \* what the submission loop printed and did per sub-range
    resumen             \* the counters printed by mostrar_resumen

vars == <<pc, fecha_inicio, fecha_fin, dias, rangos, i, solicitudes, pendientes,
          nuevos_pendientes, intentos, k, paquetes, j, data, carga, stats,
          output_dir, ronda, procesados, resultado, cancelado, retorno,
          enviados, resumen>>

entrada == <<fecha_inicio, fecha_fin, dias>>
envio == <<i, solicitudes, enviados>>
sondeo == <<pendientes, nuevos_pendientes, intentos, k>>
descarga == <<paquetes, j, data, carga>>

\* --------------------------------------------------------- pure functions

\* Variants of dividir_desde: chunks one day too long; a last chunk that is
\* not clamped to fin.
RECURSIVE dividir_desde_largo(_, _, _)
dividir_desde_largo(actual, fin, d) ==
    IF actual <= fin
    THEN LET fin_rango == Min(actual + d, fin)
         IN  <<[inicio |-> actual, fin |-> fin_rango]>>
                 \o dividir_desde_largo(fin_rango + 1, fin, d)
    ELSE <<>>

RECURSIVE dividir_desde_sin_tope(_, _, _)
dividir_desde_sin_tope(actual, fin, d) ==
    IF actual <= fin
    THEN LET fin_rango == actual + (d - 1)
         IN  <<[inicio |-> actual, fin |-> fin_rango]>>
                 \o dividir_desde_sin_tope(fin_rango + 1, fin, d)
    ELSE <<>>

\* dividir_periodos: the while loop, one iteration per recursion step.
RECURSIVE dividir_desde(_, _, _)
dividir_desde(actual, fin, d) ==
    IF actual <= fin
    THEN LET fin_rango == Min(actual + (d - 1), fin)
         IN  <<[inicio |-> actual, fin |-> fin_rango]>>
                 \o dividir_desde(fin_rango + 1, fin, d)
    ELSE <<>>

dividir_periodos(inicio, fin, d) == dividir_desde(inicio, fin, d)

\* base64: the transport encoding of a block sequence, block by block.
b64encode(d) == [n \in DOMAIN d |-> <<"b64", d[n]>>]
\* A string that b64decode rejects (binascii.Error).
B64Malo == << <<"mal", <<"", "">> >> >>
b64valido(s) == \A n \in DOMAIN s : s[n][1] = "b64"
b64decode(s) == [n \in DOMAIN s |-> s[n][2]]

\* zipfile.ZipFile(io.BytesIO(data)) raises on bytes that are no archive.
EsZip(d) == \A n \in DOMAIN d : d[n][2] # "basura"
\* xmls = [f for f in z.namelist() if f.endswith('.xml')]
xmls(d) == {n \in DOMAIN d : d[n][2] = "xml"}

\* The prefixes of d: what a write that did not complete leaves in the file.
Prefijos(d) == {SubSeq(d, 1, n) : n \in 0..Len(d)}

Ids(s) == {s[n].id : n \in DOMAIN s}

\* ------------------------------------------------------ service responses
\* solicitar_descarga: an id, no id, or an exception.
RespuestasSolicita == {"id", "sin_id", "falla"}

\* verificar_descarga: falla covers an exception of the call and of
\* int(response.get('estado_solicitud', -1)).
RespuestasVerifica ==
    {[falla |-> TRUE, estado |-> -1, paquetes |-> <<>>]}
    \cup {[falla |-> FALSE, estado |-> e, paquetes |-> <<>>] : e \in Estados}
    \cup {[falla |-> FALSE, estado |-> 3, paquetes |-> l] : l \in ListasPaquetes}

\* descargar_paquete: an exception, or a response whose paquete_b64 is
\* absent or empty (<<>>), undecodable, or the encoding of a package.
RespuestasDescarga ==
    {[falla |-> TRUE, paquete_b64 |-> <<>>]}
    \cup {[falla |-> FALSE, paquete_b64 |-> s] :
            s \in {<<>>, B64Malo} \cup {b64encode(d) : d \in Datos}}

\* ------------------------------------------------------------------- Init
StatsInit == [solicitudes_enviadas |-> 0, paquetes_descargados |-> 0,
              xmls_extraidos |-> 0, errores |-> 0]

\* The output directory may hold packages of an earlier run.
DirectoriosIniciales ==
    UNION {[S -> {DatoViejo}] : S \in SUBSET PkgIds}

InitComun ==
    /\ rangos = <<>>
    /\ i = 0
    /\ solicitudes = <<>>
    /\ pendientes = <<>>
    /\ nuevos_pendientes = <<>>
    /\ intentos = 0
    /\ k = 0
    /\ paquetes = <<>>
    /\ j = 0
    /\ data = <<>>
    /\ carga = "no_llamada"
    /\ stats = StatsInit
    /\ ronda = <<>>
    /\ procesados = <<>>
    /\ resultado = <<>>
    /\ cancelado = FALSE
    /\ retorno = "ninguno"
    /\ enviados = <<>>
    /\ resumen = {}

\* configurar_descarga swaps the dates when fecha_inicio > fecha_fin;
\* ejecutar_descarga calls dividir_periodos with the default dias.  The
\* periods are one day, exactly one block, and the longest one.
Init ==
    /\ pc = "dividir"
    /\ fecha_inicio = 0
    /\ fecha_fin \in {fecha_inicio, DIAS_DEFAULT - 1, MaxDia}
    /\ dias = DIAS_DEFAULT
    /\ output_dir \in DirectoriosIniciales
    /\ InitComun

\* ---------------------------------------------------- ejecutar_descarga
\* rangos = self.dividir_periodos(config['fecha_inicio'], config['fecha_fin'])
Dividir ==
    /\ pc = "dividir"
    /\ rangos' = dividir_periodos(fecha_inicio, fecha_fin, dias)
    /\ resultado' = [n \in DOMAIN rangos' |-> "ninguno"]
    /\ i' = 1
    /\ pc' = "enviar"
    /\ UNCHANGED <<entrada, solicitudes, enviados, sondeo, descarga, stats,
                   output_dir, ronda, procesados, cancelado, retorno>>
    /\ UNCHANGED resumen

\* Variant of CuentaEnvio that counts the request before looking at rid.
CuentaEnvioAntes(r) ==
    IF r = "falla"
    THEN [stats EXCEPT !.errores = @ + 1]
    ELSE IF r = "id"
         THEN [stats EXCEPT !.solicitudes_enviadas = @ + 1]
         ELSE [stats EXCEPT !.solicitudes_enviadas = @ + 1, !.errores = @ + 1]

\* self.stats['solicitudes_enviadas'] += 1 when rid is not empty, and
\* self.stats['errores'] += 1 without rid or in the except clause.
CuentaEnvio(r) ==
    IF r = "id"
    THEN [stats EXCEPT !.solicitudes_enviadas = @ + 1]
    ELSE [stats EXCEPT !.errores = @ + 1]

\* Variant of SiguienteEnvio in which an exception ends the loop.
SiguienteEnvioAborta(r) ==
    IF r = "falla"
    THEN pc' = "enviar" /\ i' = Len(rangos) + 1
    ELSE IF i < Len(rangos)
         THEN pc' = "sleep2" /\ i' = i
         ELSE pc' = "enviar" /\ i' = i + 1

\* The end of one iteration of the submission loop: time.sleep(2) when the
\* try block got to it and this was not the last sub-range, then the next i.
SiguienteEnvio(r) ==
    IF r # "falla" /\ i < Len(rangos)
    THEN pc' = "sleep2" /\ i' = i
    ELSE pc' = "enviar" /\ i' = i + 1

\* One iteration of "for i, (inicio, fin) in enumerate(rangos, 1)" up to the
\* sleep.  The server names the request of sub-range i by the identifier i.
Solicitar ==
    /\ pc = "enviar"
    /\ i <= Len(rangos)
    /\ \E r \in RespuestasSolicita :
         /\ solicitudes' =
              IF r = "id"
              THEN Append(solicitudes, [id |-> i, inicio |-> rangos[i].inicio,
                                        fin |-> rangos[i].fin])
              ELSE solicitudes
         /\ stats' = CuentaEnvio(r)
         /\ enviados' = Append(enviados, [i |-> i, resp |-> r, durmio |-> FALSE])
         /\ SiguienteEnvio(r)
    /\ UNCHANGED <<entrada, rangos, sondeo, descarga, output_dir, ronda,
                   procesados, resultado, cancelado, retorno>>
    /\ UNCHANGED resumen

\* time.sleep(2)
Sleep2 ==
    /\ pc = "sleep2"
    /\ pc' = "enviar"
    /\ i' = i + 1
    /\ enviados' = [enviados EXCEPT ![Len(enviados)].durmio = TRUE]
    /\ UNCHANGED <<entrada, rangos, solicitudes, sondeo, descarga, stats,
                   output_dir, ronda, procesados, resultado, cancelado, retorno>>
    /\ UNCHANGED resumen

\* Variant of TrasDescarga that shows the summary only after return True.
TrasDescargaSoloTrue(ret) == IF ret = "True" THEN "resumen" ELSE "fin"

\* ejecutar ignores what ejecutar_descarga returned and calls
\* self.mostrar_resumen() next.
TrasDescarga(ret) == "resumen"

\* Variant of SinSolicitudes: the test is missing.
SinSolicitudesNunca == FALSE

\* if not solicitudes
SinSolicitudes == solicitudes = <<>>

\* After the submission loop: return False, or start monitoring.
FinEnvio ==
    /\ pc = "enviar"
    /\ i > Len(rangos)
    /\ IF SinSolicitudes
       THEN /\ retorno' = "False"
            /\ pc' = TrasDescarga("False")
            /\ UNCHANGED <<pendientes, intentos>>
       ELSE /\ pendientes' = solicitudes
            /\ intentos' = 0
            /\ pc' = "while"
            /\ UNCHANGED retorno
    /\ UNCHANGED <<entrada, rangos, envio, nuevos_pendientes, k, descarga, stats,
                   output_dir, ronda, procesados, resultado, cancelado>>
    /\ UNCHANGED resumen

\* Variant of ContinuaSondeo that is off by one.
ContinuaSondeoDeMas == pendientes # <<>> /\ intentos <= max_intentos

\* The condition of "while pendientes and intentos < max_intentos".
ContinuaSondeo == pendientes # <<>> /\ intentos < max_intentos

\* The test of the while loop: the start of a round, or return True.
While ==
    /\ pc = "while"
    /\ IF ContinuaSondeo
       THEN /\ intentos' = intentos + 1
            /\ nuevos_pendientes' = <<>>
            /\ k' = 1
            /\ ronda' = <<>>
            /\ pc' = "for"
            /\ UNCHANGED retorno
       ELSE /\ retorno' = "True"
            /\ pc' = TrasDescarga("True")
            /\ UNCHANGED <<intentos, nuevos_pendientes, k, ronda>>
    /\ UNCHANGED <<entrada, rangos, envio, pendientes, descarga, stats,
                   output_dir, procesados, resultado, cancelado>>
    /\ UNCHANGED resumen

\* Variants of SiguePendiente: one that drops a request of unknown estado,
\* one that drops a request whose verify call raised.
SiguePendienteSoloConocidos(r) == r.falla \/ r.estado \in {1, 2}
SiguePendienteSinFalla(r) == ~r.falla /\ r.estado \notin {3, 4, 5}

\* Variants of SiguePendiente: one that forgets estado 5, one that drops a
\* request in process.
SiguePendienteCinco(r) == r.falla \/ r.estado \notin {3, 4}
SiguePendienteSinProceso(r) == r.falla \/ r.estado \notin {2, 3, 4, 5}

\* Variant of SiguientePaquete that leaves the loop after the first package.
SiguientePaqueteCorta ==
    /\ j' = 0
    /\ k' = k + 1
    /\ pc' = "for"
    /\ UNCHANGED paquetes

\* Variant of SiguePendiente that keeps a request with packages pending.
SiguePendienteListo(r) ==
    r.falla \/ r.estado \notin {3, 4, 5} \/ (r.estado = 3 /\ r.paquetes # <<>>)

\* The branches of the estado chain that append sol to nuevos_pendientes:
\* estado 1, estado 2, the final else, and the except clause.
SiguePendiente(r) == r.falla \/ r.estado \notin {3, 4, 5}

\* Variant of Agregar that puts the request in front.
AgregarDelante(s, x) == <<x>> \o s

\* nuevos_pendientes.append(sol)
Agregar(s, x) == Append(s, x)

\* Variant of CuentaError that also counts a ready request without packages.
CuentaErrorVacio(r) ==
    ~r.falla /\ (r.estado \in {4, 5} \/ (r.estado = 3 /\ r.paquetes = <<>>))

\* elif estado in (4, 5): ... self.stats['errores'] += 1
CuentaError(r) == ~r.falla /\ r.estado \in {4, 5}

\* One iteration of "for sol in pendientes": the verify call and the
\* classification of estado.  A response with estado 3 and packages enters
\* descargar_paquetes; every other one goes on to the next sol.
Verificar ==
    /\ pc = "for"
    /\ k <= Len(pendientes)
    /\ LET sol == pendientes[k] IN
       \E r \in RespuestasVerifica :
         /\ ronda' = Append(ronda, [id |-> sol.id, falla |-> r.falla,
                                    estado |-> r.estado])
         /\ procesados' = <<>>
         /\ nuevos_pendientes' =
              IF SiguePendiente(r)
              THEN Agregar(nuevos_pendientes, sol)
              ELSE nuevos_pendientes
         /\ stats' =
              IF CuentaError(r)
              THEN [stats EXCEPT !.errores = @ + 1]
              ELSE stats
         /\ resultado' =
              IF r.falla THEN resultado
              ELSE IF r.estado = 3
                   THEN [resultado EXCEPT ![sol.id] =
                            IF r.paquetes # <<>> THEN "Ready" ELSE "Empty"]
                   ELSE IF r.estado \in {4, 5}
                        THEN [resultado EXCEPT ![sol.id] = "Rejected"]
                        ELSE resultado
         /\ IF ~r.falla /\ r.estado = 3 /\ r.paquetes # <<>>
            THEN /\ paquetes' = r.paquetes
                 /\ j' = 1
                 /\ pc' = "paquete"
                 /\ k' = k
            ELSE /\ paquetes' = <<>>
                 /\ k' = k + 1
                 /\ pc' = "for"
                 /\ UNCHANGED j
    /\ UNCHANGED <<entrada, rangos, envio, pendientes, intentos, data, carga,
                   output_dir, cancelado, retorno>>
    /\ UNCHANGED resumen

\* pendientes = nuevos_pendientes; if pendientes: ... time.sleep(60)
FinRonda ==
    /\ pc = "for"
    /\ k > Len(pendientes)
    /\ pendientes' = nuevos_pendientes
    /\ pc' = IF nuevos_pendientes # <<>> THEN "sleep60" ELSE "while"
    /\ paquetes' = <<>>
    /\ procesados' = <<>>
    /\ UNCHANGED <<entrada, rangos, envio, nuevos_pendientes, intentos, k, j,
                   data, carga, stats, output_dir, ronda, resultado, cancelado,
                   retorno>>
    /\ UNCHANGED resumen

\* time.sleep(60) returns
Sleep60 ==
    /\ pc = "sleep60"
    /\ pc' = "while"
    /\ UNCHANGED <<entrada, rangos, envio, sondeo, descarga, stats, output_dir,
                   ronda, procesados, resultado, cancelado, retorno>>
    /\ UNCHANGED resumen

\* --------------------------------------------------- descargar_paquetes
\* The end of one iteration of "for i, pkg_id in enumerate(paquetes, 1)":
\* the next package, or the return to the round of ejecutar_descarga.
SiguientePaquete ==
    IF j < Len(paquetes)
    THEN /\ j' = j + 1
         /\ pc' = "paquete"
         /\ UNCHANGED <<paquetes, k>>
    ELSE /\ j' = 0
         /\ k' = k + 1
         /\ pc' = "for"
         /\ UNCHANGED paquetes

\* What the fetch call brought: an exception, no paquete_b64, one that
\* base64 rejects, or the encoding of a package.
Carga(r) ==
    IF r.falla THEN "falla"
    ELSE IF r.paquete_b64 = <<>> THEN "vacia"
    ELSE IF ~b64valido(r.paquete_b64) THEN "mala"
    ELSE "buena"

\* What one iteration printed: the package, what the fetch call brought
\* ("no_llamada" when descargar_paquete was not called) and the outcome.
Anotar(pkg, c, res) ==
    procesados' = Append(procesados, [pkg |-> pkg, carga |-> c, res |-> res])

\* Variant of Existe: the existence check is missing.
ExisteNunca(pkg) == FALSE

\* Variant of Existe: an empty file does not count as existing.
ExisteNoVacio(pkg) == pkg \in DOMAIN output_dir /\ output_dir[pkg] # <<>>

\* Variant of TienePayload: the payload check is missing.
TienePayloadSiempre(r) == TRUE

\* zip_path.exists()
Existe(pkg) == pkg \in DOMAIN output_dir

\* if response.get('paquete_b64')
TienePayload(r) == r.paquete_b64 # <<>>

\* if zip_path.exists(): ... continue
YaExiste ==
    /\ pc = "paquete"
    /\ Existe(paquetes[j])
    /\ stats' = [stats EXCEPT !.paquetes_descargados = @ + 1]
    /\ Anotar(paquetes[j], "no_llamada", "existe")
    /\ SiguientePaquete
    /\ UNCHANGED <<entrada, rangos, envio, pendientes, nuevos_pendientes,
                   intentos, data, carga, output_dir, ronda, resultado,
                   cancelado, retorno>>
    /\ UNCHANGED resumen

\* response = downloader.descargar_paquete(...) up to base64.b64decode
Descargar ==
    /\ pc = "paquete"
    /\ ~Existe(paquetes[j])
    /\ \E r \in RespuestasDescarga :
         IF r.falla
         THEN /\ Anotar(paquetes[j], Carga(r), "error")
              /\ SiguientePaquete
              /\ UNCHANGED <<data, carga>>
         ELSE IF ~TienePayload(r)
         THEN /\ Anotar(paquetes[j], Carga(r), "sin_datos")
              /\ SiguientePaquete
              /\ UNCHANGED <<data, carga>>
         ELSE IF ~b64valido(r.paquete_b64)
         THEN /\ Anotar(paquetes[j], Carga(r), "error")
              /\ SiguientePaquete
              /\ UNCHANGED <<data, carga>>
         ELSE /\ data' = b64decode(r.paquete_b64)
              /\ carga' = Carga(r)
              /\ pc' = "open"
              /\ UNCHANGED <<paquetes, j, k, procesados>>
    /\ UNCHANGED <<entrada, rangos, envio, pendientes, nuevos_pendientes,
                   intentos, stats, output_dir, ronda, resultado, cancelado,
                   retorno>>
    /\ UNCHANGED resumen

\* open(zip_path, 'wb'): creates the empty file, or raises OSError.
Abrir ==
    /\ pc = "open"
    /\ \/ /\ output_dir' = [q \in DOMAIN output_dir \cup {paquetes[j]} |->
                              IF q = paquetes[j] THEN <<>> ELSE output_dir[q]]
          /\ pc' = "write"
          /\ UNCHANGED <<paquetes, j, k, procesados, data, carga>>
       \/ /\ Anotar(paquetes[j], carga, "error")
          /\ SiguientePaquete
          /\ data' = <<>>
          /\ carga' = "no_llamada"
          /\ UNCHANGED output_dir
    /\ UNCHANGED <<entrada, rangos, envio, pendientes, nuevos_pendientes,
                   intentos, stats, ronda, resultado, cancelado, retorno>>
    /\ UNCHANGED resumen

\* f.write(data) and the rest of the iteration: the counters and the count
\* of the XMLs of the archive; or f.write raises OSError.
Escribir ==
    /\ pc = "write"
    /\ \/ /\ output_dir' = [output_dir EXCEPT ![paquetes[j]] = data]
          /\ stats' = [stats EXCEPT
                          !.paquetes_descargados = @ + 1,
                          !.xmls_extraidos =
                              IF EsZip(data) THEN @ + Cardinality(xmls(data))
                              ELSE @]
          /\ Anotar(paquetes[j], carga, "guardado")
       \/ /\ \E n \in 0..(Len(data) - 1) :
               output_dir' = [output_dir EXCEPT ![paquetes[j]] = SubSeq(data, 1, n)]
          /\ Anotar(paquetes[j], carga, "error")
          /\ UNCHANGED stats
    /\ SiguientePaquete
    /\ data' = <<>>
    /\ carga' = "no_llamada"
    /\ UNCHANGED <<entrada, rangos, envio, pendientes, nuevos_pendientes,
                   intentos, ronda, resultado, cancelado, retorno>>
    /\ UNCHANGED resumen

\* ------------------------------------------------- ejecutar and __main__
\* self.mostrar_resumen()
MostrarResumen ==
    /\ pc = "resumen"
    /\ pc' = "fin"
    /\ resumen' = {stats}
    /\ UNCHANGED <<entrada, rangos, envio, sondeo, descarga, stats, output_dir,
                   ronda, procesados, resultado, cancelado, retorno>>

\* Variant of Interrumpido in which the handler goes on with the loop.
InterrumpidoSigue(ret) == "while"

\* "except KeyboardInterrupt: ... break" around time.sleep(60): the loop is
\* left and ejecutar_descarga returns.
Interrumpido(ret) == TrasDescarga(ret)

\* KeyboardInterrupt.  Inside time.sleep(60) it is caught and breaks the
\* while loop; anywhere else it reaches __main__, which exits: the process
\* and its memory are gone, the output directory stays.  One that arrives
\* while the file is open leaves what was written so far.
KeyboardInterrupt ==
    /\ pc \notin {"fin", "exit", "dividido"}
    /\ cancelado' = TRUE
    /\ IF pc = "sleep60"
       THEN /\ pc' = Interrumpido("True")
            /\ retorno' = "True"
            /\ UNCHANGED <<rangos, envio, sondeo, descarga, stats, output_dir,
                           ronda, procesados, resultado>>
       ELSE /\ pc' = "exit"
            /\ rangos' = <<>>
            /\ i' = 0
            /\ solicitudes' = <<>>
            /\ enviados' = <<>>
            /\ pendientes' = <<>>
            /\ nuevos_pendientes' = <<>>
            /\ intentos' = 0
            /\ k' = 0
            /\ paquetes' = <<>>
            /\ j' = 0
            /\ data' = <<>>
            /\ carga' = "no_llamada"
            /\ stats' = StatsInit
            /\ ronda' = <<>>
            /\ procesados' = <<>>
            /\ resultado' = <<>>
            /\ UNCHANGED retorno
            /\ IF pc = "write"
               THEN \E c \in Prefijos(data) :
                      output_dir' = [output_dir EXCEPT ![paquetes[j]] = c]
               ELSE UNCHANGED output_dir
    /\ UNCHANGED entrada
    /\ UNCHANGED resumen

\* KeyboardInterrupt while the archive is being read to count its XMLs: the
\* bare "except: pass" swallows it.  The file and paquetes_descargados are
\* already written, the XMLs are not counted and the run goes on.
KeyboardInterruptTragado ==
    /\ pc = "write"
    /\ EsZip(data)
    /\ output_dir' = [output_dir EXCEPT ![paquetes[j]] = data]
    /\ stats' = [stats EXCEPT !.paquetes_descargados = @ + 1]
    /\ Anotar(paquetes[j], carga, "guardado")
    /\ SiguientePaquete
    /\ data' = <<>>
    /\ carga' = "no_llamada"
    /\ UNCHANGED <<entrada, rangos, envio, pendientes, nuevos_pendientes,
                   intentos, ronda, resultado, cancelado, retorno>>
    /\ UNCHANGED resumen

Paso ==
    \/ Dividir \/ Solicitar \/ Sleep2 \/ FinEnvio
    \/ While \/ Verificar \/ FinRonda \/ Sleep60
    \/ YaExiste \/ Descargar \/ Abrir \/ Escribir
    \/ MostrarResumen

Next == Paso \/ KeyboardInterrupt \/ KeyboardInterruptTragado

Spec == Init /\ [][Next]_vars

\* The program is sequential: the step at the control point is taken.
FairSpec == Spec /\ WF_vars(Paso)

\* ------------------------------------------- dividir_periodos on its own
InitDividir ==
    /\ pc = "llamar"
    /\ fecha_inicio \in 0..MaxDiaDividir
    /\ fecha_fin \in fecha_inicio..MaxDiaDividir
    /\ dias \in 1..MaxDias
    /\ output_dir = <<>>
    /\ InitComun

LlamarDividir ==
    /\ pc = "llamar"
    /\ rangos' = dividir_periodos(fecha_inicio, fecha_fin, dias)
    /\ pc' = "dividido"
    /\ UNCHANGED <<entrada, envio, sondeo, descarga, stats, output_dir, ronda,
                   procesados, resultado, cancelado, retorno>>
    /\ UNCHANGED resumen

SpecDividir == InitDividir /\ [][LlamarDividir]_vars

\* ================================================================ claims
Last(s) == s[Len(s)]
IdsDe(s) == [n \in DOMAIN s |-> s[n].id]
PkgsDe(s) == [n \in DOMAIN s |-> s[n].pkg]

\* A step that verified one request / that ended a round / that ended one
\* iteration of the package loop.
PasoVerifica == Len(ronda') = Len(ronda) + 1
PasoFinRonda == pc = "for" /\ pc' \in {"sleep60", "while"}
PasoPaquete == Len(procesados') = Len(procesados) + 1

\* C1: at the end of every round, every request of the round's working set
\* was verified in it, and it is in the next working set if and only if its
\* verify call raised or returned an estado other than 3, 4 and 5.
C1_Permanencia ==
    [][PasoFinRonda =>
        /\ IdsDe(ronda) = IdsDe(pendientes)
        /\ \A n \in DOMAIN pendientes :
             (pendientes[n].id \in Ids(pendientes'))
                <=> (ronda[n].falla \/ ronda[n].estado \notin {3, 4, 5})]_vars

\* A round ended that kept a request of unknown estado and removed another.
C1_Testigo ==
    /\ pc = "sleep60"
    /\ Len(ronda) = 2
    /\ \E n \in DOMAIN ronda :
         ~ronda[n].falla /\ ronda[n].estado = 6 /\ ronda[n].id \in Ids(pendientes)
    /\ \E n \in DOMAIN ronda :
         ~ronda[n].falla /\ ronda[n].estado \in {3, 4, 5}
            /\ ronda[n].id \notin Ids(pendientes)

\* C2: a verify call that raises keeps the request: it is appended to
\* nuevos_pendientes, is in the working set of the next round, and every
\* round verifies all of its working set.  A verify response with estado 4
\* or 5 does not keep it and adds exactly one to errores, and no request is
\* verified once it has a terminal outcome.
C2_FallaYRechazo ==
    [][/\ (PasoVerifica /\ Last(ronda').falla) =>
            /\ nuevos_pendientes' = Append(nuevos_pendientes, pendientes[k])
            /\ stats' = stats
       /\ (PasoVerifica /\ ~Last(ronda').falla /\ Last(ronda').estado \in {4, 5}) =>
            /\ nuevos_pendientes' = nuevos_pendientes
            /\ stats' = [stats EXCEPT !.errores = @ + 1]
            /\ resultado'[Last(ronda').id] = "Rejected"
       /\ PasoVerifica =>
            /\ Last(ronda').id = pendientes[k].id
            /\ resultado[pendientes[k].id] = "ninguno"
       /\ PasoFinRonda =>
            /\ IdsDe(ronda) = IdsDe(pendientes)
            /\ \A n \in DOMAIN ronda :
                 ronda[n].falla => ronda[n].id \in Ids(pendientes')
            /\ \A n \in DOMAIN ronda :
                 (~ronda[n].falla /\ ronda[n].estado \in {4, 5})
                    => ronda[n].id \notin Ids(pendientes')]_vars

\* A later round in which a request whose verify call raised in an earlier
\* round is verified again while a rejected one is out of the working set.
C2_Testigo ==
    /\ pc = "for"
    /\ intentos >= 2
    /\ Len(ronda) = 1
    /\ ronda[1].falla
    /\ \E id \in DOMAIN resultado :
         resultado[id] = "Rejected" /\ id \notin Ids(pendientes)
    /\ stats.errores = 1

\* C3: a response with estado 3 and the packages p1..pn makes the package
\* loop handle p1..pn, each once and in this order, and the loop is over
\* before the next request is verified or the round ends.
C3_PaquetesEnOrden ==
    /\ pc \in {"paquete", "open", "write"} =>
         /\ ~Last(ronda).falla /\ Last(ronda).estado = 3
         /\ j \in 1..Len(paquetes)
         /\ PkgsDe(procesados) = SubSeq(paquetes, 1, j - 1)
    /\ pc = "for" => PkgsDe(procesados) = paquetes

\* Two different packages were handled in order and another request of the
\* round is still to be verified.
C3_Testigo ==
    /\ pc = "for"
    /\ k <= Len(pendientes)
    /\ Len(paquetes) = 2
    /\ paquetes[1] # paquetes[2]
    /\ PkgsDe(procesados) = paquetes

Terminado == pc \in {"fin", "exit"}
\* The while loop was left by its test (not by the break of the sleep).
SalioDelWhile == pc \in {"resumen", "fin"} /\ retorno = "True" /\ ~cancelado
SinResultado == {s \in Ids(solicitudes) : resultado[s] = "ninguno"}

\* C4: whatever the server answers, the polling loop runs at most
\* max_intentos rounds; its test ends the loop when the round limit is
\* reached or the working set is empty, and the run terminates.
C4_TerminaEnMaxIntentos ==
    /\ [](intentos <= max_intentos)
    /\ [][(pc = "while" /\ (intentos = max_intentos \/ pendientes = <<>>))
            => (pc' \in {"resumen", "exit"} /\ intentos' \in {intentos, 0})]_vars
    /\ <>Terminado

\* The run ended after max_intentos rounds with a request never resolved.
C4_Testigo ==
    /\ pc = "fin"
    /\ ~cancelado
    /\ intentos = max_intentos
    /\ SinResultado # {}

C6_Particion ==
    /\ [](pc \in {"while", "sleep60", "resumen", "fin"} =>
            /\ Ids(pendientes) \subseteq Ids(solicitudes)
            /\ Len(pendientes) = Cardinality(Ids(pendientes))
            /\ \A s \in Ids(solicitudes) :
                 (s \in Ids(pendientes)) <=> (resultado[s] = "ninguno"))
    /\ [][/\ \A s \in Ids(solicitudes) :
               resultado[s] # "ninguno" =>
                  /\ s \notin Ids(pendientes) => s \notin Ids(pendientes')
                  /\ pc' # "exit" => resultado'[s] = resultado[s]
          /\ pc # "enviar" => Ids(pendientes') \subseteq Ids(pendientes)]_vars

\* A round ended with one request still pending and the other one resolved.
C6_Testigo ==
    /\ pc = "sleep60"
    /\ Len(solicitudes) = 2
    /\ Len(pendientes) = 1
    /\ \E s \in Ids(solicitudes) :
         s \notin Ids(pendientes) /\ resultado[s] \in {"Ready", "Empty", "Rejected"}

Dias(r) == r.fin - r.inicio + 1

\* C7: for inicio <= fin and dias >= 1 dividir_periodos returns a non-empty
\* sequence of ranges, ascending, each starting the day after the previous
\* one ends, each of at most dias days, the first starting at inicio, the
\* last ending at fin, and together covering exactly inicio..fin.
C7_DividirCubre ==
    pc = "dividido" =>
        LET n == Len(rangos) IN
        /\ n >= 1
        /\ rangos[1].inicio = fecha_inicio
        /\ rangos[n].fin = fecha_fin
        /\ \A m \in 1..n :
             /\ rangos[m].inicio <= rangos[m].fin
             /\ Dias(rangos[m]) <= dias
             /\ m < n => rangos[m + 1].inicio = rangos[m].fin + 1
        /\ UNION {rangos[m].inicio..rangos[m].fin : m \in 1..n}
              = fecha_inicio..fecha_fin
        /\ \A m1, m2 \in 1..n :
             m1 < m2 => rangos[m1].fin < rangos[m2].inicio

\* A period split into three ranges or more whose last one is clamped.
C7_Testigo ==
    /\ pc = "dividido"
    /\ Len(rangos) >= 3
    /\ Dias(rangos[Len(rangos)]) < dias
    /\ fecha_inicio > 0

\* C8: for a period of N days dividir_periodos returns ceil(N / dias)
\* ranges, all of exactly dias days but the last, which ends at fin; 20 days
\* in chunks of 7 give 7, 7 and 6 days; inicio = fin gives the one range
\* (inicio, inicio).
C8_DividirVoraz ==
    pc = "dividido" =>
        LET n == Len(rangos)
            N == fecha_fin - fecha_inicio + 1
        IN
        /\ n = (N + dias - 1) \div dias
        /\ \A m \in 1..(n - 1) : Dias(rangos[m]) = dias
        /\ rangos[n].fin = fecha_fin
        /\ Dias(rangos[n]) = N - (n - 1) * dias
        /\ (N = 20 /\ dias = 7) =>
              <<Dias(rangos[1]), Dias(rangos[2]), Dias(rangos[3])>> = <<7, 7, 6>>
        /\ fecha_inicio = fecha_fin =>
              rangos = <<[inicio |-> fecha_inicio, fin |-> fecha_inicio]>>

\* The 20 days of the example, split in chunks of 7.
C8_Testigo ==
    /\ pc = "dividido"
    /\ fecha_fin - fecha_inicio + 1 = 20
    /\ dias = 7
    /\ Len(rangos) = 3

\* C9: the iteration for a package whose file exists does not call
\* descargar_paquete, leaves the output directory as it is, adds one to
\* paquetes_descargados and leaves the other counters unchanged; so a file
\* on disk at the start of an iteration is never fetched.
C9_ExistenteSinRed ==
    [][(pc = "paquete" /\ paquetes[j] \in DOMAIN output_dir /\ pc' # "exit") =>
        /\ PasoPaquete
        /\ Last(procesados') =
              [pkg |-> paquetes[j], carga |-> "no_llamada", res |-> "existe"]
        /\ output_dir' = output_dir
        /\ stats' = [stats EXCEPT !.paquetes_descargados = @ + 1]
        /\ data' = data]_vars

\* The package loop met a file of an earlier run and left it alone.
C9_Testigo ==
    /\ procesados # <<>>
    /\ Last(procesados).res = "existe"
    /\ Last(procesados).carga = "no_llamada"
    /\ Last(procesados).pkg \in DOMAIN output_dir
    /\ output_dir[Last(procesados).pkg] = DatoViejo
    /\ stats.paquetes_descargados = 1
    /\ stats.xmls_extraidos = 0

\* C10: when the fetch response carries no paquete_b64, the iteration
\* prints the "Sin datos" error, creates no file for the package and leaves
\* paquetes_descargados and xmls_extraidos unchanged.
C10_SinPayload ==
    [][(PasoPaquete /\ Last(procesados').carga = "vacia") =>
        /\ Last(procesados').res = "sin_datos"
        /\ Last(procesados').pkg = paquetes[j]
        /\ paquetes[j] \notin DOMAIN output_dir'
        /\ output_dir' = output_dir
        /\ stats'.paquetes_descargados = stats.paquetes_descargados
        /\ stats'.xmls_extraidos = stats.xmls_extraidos]_vars

\* A fetch without payload: nothing on disk, nothing counted.
C10_Testigo ==
    /\ procesados # <<>>
    /\ Last(procesados).carga = "vacia"
    /\ Last(procesados).res = "sin_datos"
    /\ Last(procesados).pkg \notin DOMAIN output_dir
    /\ stats.paquetes_descargados = 0

PasoEnvio == Len(enviados') = Len(enviados) + 1
\* The contents a complete package file can have.
Completos == Datos \cup {DatoViejo}
TrasElEnvio ==
    pc \in {"while", "for", "paquete", "open", "write", "sleep60", "resumen", "fin"}

\* C11: outside the write itself, every file of the output directory holds
\* a complete package, also after an interrupt or a fault during the write.
C11_EscrituraAtomica ==
    pc # "write" => \A p \in DOMAIN output_dir : output_dir[p] \in Completos

\* C12: a submission without identifier or with an exception adds no
\* request, adds exactly one to errores and goes on with the loop; once the
\* submission loop is over every sub-range was submitted, in order.
C12_EnvioFallidoSigue ==
    /\ [][(PasoEnvio /\ Last(enviados').resp \in {"sin_id", "falla"}) =>
            /\ solicitudes' = solicitudes
            /\ pendientes' = pendientes
            /\ stats' = [stats EXCEPT !.errores = @ + 1]
            /\ pc' \in {"enviar", "sleep2"}]_vars
    /\ [](TrasElEnvio =>
            /\ Len(enviados) = Len(rangos)
            /\ \A n \in DOMAIN enviados : enviados[n].i = n)

\* The first submission raised, the second one got no identifier... and the
\* loop still reached its end.
C12_Testigo ==
    /\ pc = "resumen"
    /\ Len(rangos) = 2
    /\ Len(enviados) = 2
    /\ enviados[1].resp = "falla"
    /\ enviados[2].resp = "sin_id"
    /\ stats.errores = 2

\* C13: solicitudes_enviadas grows by one in the submissions that returned
\* an identifier and in no other step; when the submission loop is over it
\* equals the length of the initial working set, and together with the
\* errors of the submissions it equals the number of sub-ranges.
C13_SolicitudesEnviadas ==
    /\ [][pc' # "exit" =>
            stats'.solicitudes_enviadas =
               stats.solicitudes_enviadas
                  + (IF PasoEnvio /\ Last(enviados').resp = "id" THEN 1 ELSE 0)]_vars
    /\ []((pc = "while" /\ intentos = 0) =>
            /\ stats.solicitudes_enviadas = Len(pendientes)
            /\ stats.solicitudes_enviadas + stats.errores = Len(rangos))
    /\ []((pc = "resumen" /\ retorno = "False") =>
            /\ stats.solicitudes_enviadas = 0
            /\ stats.errores = Len(rangos))

\* The submission loop ended with one request sent and one error.
C13_Testigo ==
    /\ pc = "while"
    /\ intentos = 0
    /\ Len(rangos) = 2
    /\ stats.solicitudes_enviadas = 1
    /\ stats.errores = 1
    /\ enviados[1].resp = "sin_id"

\* C14: every error of a submission, of a verify call and of a package
\* fetch adds one to errores.
C14_TodoErrorCuenta ==
    [][(\/ PasoEnvio /\ Last(enviados').resp \in {"sin_id", "falla"}
        \/ PasoVerifica /\ (Last(ronda').falla \/ Last(ronda').estado \in {4, 5})
        \/ PasoPaquete /\ Last(procesados').carga \in {"vacia", "falla"})
          => stats'.errores = stats.errores + 1]_vars

\* C15: every run that is not ended by Ctrl+C outside the pause between
\* rounds reaches the end of ejecutar, and at the end of ejecutar the
\* summary was shown with the counters of the run, whatever failed.
C15_ResumenFinal ==
    /\ <>(pc \in {"fin", "exit"})
    /\ [](pc = "exit" => cancelado)
    /\ [](pc = "fin" => resumen = {stats})
    /\ [](resumen # {} => pc = "fin")

\* The summary of the run in which both submissions failed.
C15_Testigo ==
    /\ pc = "fin"
    /\ retorno = "False"
    /\ Len(rangos) = 2
    /\ \A n \in DOMAIN enviados : enviados[n].resp # "id"
    /\ resumen = {[StatsInit EXCEPT !.errores = 2]}

\* C16: Ctrl+C takes the run to the summary (from the pause between
\* rounds) or to the end of the process (from anywhere else) in one step,
\* and after it no submission, no verify call, no package step and no
\* round happens and the output directory is not touched any more.
C16_InterrupcionDetiene ==
    /\ [][(~cancelado /\ cancelado') =>
            /\ pc' = (IF pc = "sleep60" THEN "resumen" ELSE "exit")
            /\ ~PasoEnvio /\ ~PasoVerifica /\ ~PasoPaquete
            /\ intentos' <= intentos]_vars
    /\ [][cancelado =>
            /\ pc' \in {"fin", "exit"}
            /\ ~PasoEnvio /\ ~PasoVerifica /\ ~PasoPaquete
            /\ intentos' <= intentos
            /\ output_dir' = output_dir]_vars
    /\ [](cancelado => pc \in {"resumen", "fin", "exit"})

\* Interrupted in the pause after the first round with a request still
\* pending: the run ended there.
C16_Testigo ==
    /\ cancelado
    /\ pc = "fin"
    /\ intentos = 1
    /\ pendientes # <<>>

\* s is strictly ascending in the identifiers, that is, in the order in
\* which the requests were submitted.
EnOrden(s) == \A n, m \in DOMAIN s : n < m => s[n].id < s[m].id
RECURSIVE EsSubsecuencia(_, _)
EsSubsecuencia(s, t) ==
    IF s = <<>> THEN TRUE
    ELSE IF t = <<>> THEN FALSE
    ELSE IF Head(s) = Head(t) THEN EsSubsecuencia(Tail(s), Tail(t))
    ELSE EsSubsecuencia(s, Tail(t))
EnRonda == pc \in {"for", "paquete", "open", "write"}

\* C17: the n-th submission is that of the n-th sub-range and the
\* sub-ranges ascend; within a round the requests are verified in the
\* order of the working set; the working set and the one being built for
\* the next round keep the order of submission, and the working set of a
\* round is a subsequence of the one before.
C17_Orden ==
    /\ [](\A n, m \in DOMAIN rangos : n < m => rangos[n].fin < rangos[m].inicio)
    /\ [][PasoEnvio => Last(enviados').i = Len(enviados) + 1]_vars
    /\ [](EnRonda => IdsDe(ronda) = SubSeq(IdsDe(pendientes), 1, Len(ronda)))
    /\ [](EnOrden(solicitudes) /\ EnOrden(pendientes) /\ EnOrden(nuevos_pendientes))
    /\ [](EnRonda => EsSubsecuencia(nuevos_pendientes, pendientes))
    /\ [][PasoFinRonda => EsSubsecuencia(pendientes', pendientes)]_vars

\* Two requests went through the first round and both stay, in order.
C17_Testigo ==
    /\ pc = "sleep60"
    /\ intentos = 1
    /\ Len(pendientes) = 2
    /\ IdsDe(ronda) = <<1, 2>>
    /\ IdsDe(pendientes) = <<1, 2>>

\* C18: no step removes a file of the output directory or changes its
\* contents, except the write into the file that the same iteration has
\* just created for a package that had none.
C18_SoloCrea ==
    /\ [][\A p \in DOMAIN output_dir :
             /\ p \in DOMAIN output_dir'
             /\ \/ output_dir'[p] = output_dir[p]
                \/ pc = "write" /\ p = paquetes[j]]_vars
    /\ [](pc = "open" => paquetes[j] \notin DOMAIN output_dir)
    /\ [](pc = "write" => output_dir[paquetes[j]] = <<>>)

\* A package was saved next to a file that was there before the run, and
\* a package whose file existed was skipped.
C18_Testigo ==
    /\ \E p, q \in DOMAIN output_dir :
          /\ output_dir[p] = DatoViejo
          /\ output_dir[q] \in Datos
    /\ Len(procesados) = 2
    /\ procesados[1].res = "guardado"
    /\ procesados[2].res = "existe"

\* C19: every submission but the first comes after the time.sleep(2) of
\* the one before, whatever the one before brought, and the last
\* submission is followed by no time.sleep(2).
C19_PausaEntreEnvios ==
    /\ [][(PasoEnvio /\ enviados # <<>>) => Last(enviados).durmio]_vars
    /\ [](TrasElEnvio => ~Last(enviados).durmio)

\* C20: a verify response with estado 3 and no packages takes the request
\* out (it is not added to nuevos_pendientes), records "Empty", goes on to
\* the next request without entering descargar_paquetes, and leaves the
\* counters and the output directory as they were.
C20_Vacio ==
    [][(PasoVerifica /\ ~Last(ronda').falla /\ Last(ronda').estado = 3
          /\ paquetes' = <<>>) =>
         /\ nuevos_pendientes' = nuevos_pendientes
         /\ resultado'[Last(ronda').id] = "Empty"
         /\ pc' = "for"
         /\ k' = k + 1
         /\ procesados' = <<>>
         /\ carga' = "no_llamada"
         /\ stats' = stats
         /\ output_dir' = output_dir]_vars

\* The only request came back ready without packages and the run ended
\* after one round with the counters of the submission only.
C20_Testigo ==
    /\ pc = "resumen"
    /\ intentos = 1
    /\ Len(ronda) = 1
    /\ ~ronda[1].falla
    /\ ronda[1].estado = 3
    /\ resultado[1] = "Empty"
    /\ pendientes = <<>>
    /\ stats = [StatsInit EXCEPT !.solicitudes_enviadas = 1]

\* C21: the run is in time.sleep(60) only when another round follows: the
\* working set is not empty and the round limit is not reached.
C21_PausaSoloEntreRondas ==
    pc = "sleep60" => (pendientes # <<>> /\ intentos < max_intentos)

EnPaquetes == pc \in {"paquete", "open", "write"}
\* The iteration of the package loop that ended without a saved file
\* because the fetch raised or brought no usable payload.
PasoPaqueteFallido ==
    PasoPaquete /\ Last(procesados').carga \in {"falla", "vacia", "mala"}

\* C22: a request with packages is not added to nuevos_pendientes, neither
\* when it is verified nor while its packages are processed; after a
\* package whose fetch failed the loop goes on to the next package or, after
\* the last one, to the next request; and a request that was Ready is in no
\* later working set, so it is not verified and its packages are not
\* fetched again.
C22_ListaSale ==
    /\ [][(PasoVerifica /\ paquetes' # <<>>) =>
            /\ nuevos_pendientes' = nuevos_pendientes
            /\ resultado'[Last(ronda').id] = "Ready"
            /\ resultado[Last(ronda').id] # "Ready"]_vars
    /\ [](EnPaquetes =>
            /\ pendientes[k].id \notin Ids(nuevos_pendientes)
            /\ resultado[pendientes[k].id] = "Ready")
    /\ [][(EnPaquetes /\ pc' # "exit") => nuevos_pendientes' = nuevos_pendientes]_vars
    /\ [][PasoPaqueteFallido =>
            IF j < Len(paquetes)
            THEN pc' = "paquete" /\ j' = j + 1 /\ k' = k /\ paquetes' = paquetes
            ELSE pc' = "for" /\ k' = k + 1]_vars
    /\ [](\A n \in DOMAIN resultado :
            (resultado[n] = "Ready" /\ pc \in {"while", "sleep60"})
               => n \notin Ids(pendientes))

\* The fetch of the first package of the first request raised, the second
\* package was saved, the request is out and the second request of the
\* round is still to be verified.
C22_Testigo ==
    /\ pc = "for"
    /\ Len(pendientes) = 2
    /\ k = 2
    /\ Len(procesados) = 2
    /\ procesados[1].carga = "falla"
    /\ procesados[2].res = "guardado"
    /\ resultado[1] = "Ready"
    /\ nuevos_pendientes = <<>>

\* C23: ejecutar_descarga returns False exactly when the submission loop
\* ended without any identifier, straight from the end of the loop; then
\* there was no round, no verify call, no package step and no pause of 60
\* seconds, and errores is the number of sub-ranges.
C23_SinIdentificador ==
    /\ [][(retorno # "False" /\ retorno' = "False") =>
            /\ pc = "enviar"
            /\ solicitudes = <<>>
            /\ pc' = "resumen"]_vars
    /\ []((TrasElEnvio /\ \A n \in DOMAIN enviados : enviados[n].resp # "id")
            => (retorno = "False" /\ pc \in {"resumen", "fin"}))
    /\ [](retorno = "False" =>
            /\ pc \in {"resumen", "fin", "exit"}
            /\ intentos = 0
            /\ pendientes = <<>>
            /\ ronda = <<>>
            /\ procesados = <<>>
            /\ carga = "no_llamada"
            /\ stats.solicitudes_enviadas = 0
            /\ stats.paquetes_descargados = 0
            /\ stats.errores = Len(rangos))

\* Two sub-ranges, one submission without identifier and one that raised:
\* False was returned with two errors.
C23_Testigo ==
    /\ pc = "resumen"
    /\ retorno = "False"
    /\ Len(rangos) = 2
    /\ enviados[1].resp = "sin_id"
    /\ enviados[2].resp = "falla"
    /\ stats.errores = 2

====
